---- MODULE Spec2Model ----
(***************************************************************************)
(* A model of v8worker: the Go wrapper (worker.go) and the C++ binding     *)
(* (binding.cc) around one V8 isolate per Worker.                          *)
(*                                                                         *)
(* Host threads (goroutines pinned to an OS thread for the length of a cgo *)
(* call) create Workers, load scripts, send messages; scripts register     *)
(* handlers and call back into the host through $send / $sendSync; the Go  *)
(* garbage collector runs the finalizer that disposes a Worker.            *)
(*                                                                         *)
(* Texts are sequences of bytes (Go strings, C strings) or sequences of    *)
(* code points (JavaScript strings); the conversions between them are      *)
(* modelled by what they do.                                               *)
(***************************************************************************)
EXTENDS Integers, Sequences, FiniteSets, TLC

(***************************************************************************)
(* Bounds of the model.                                                    *)
(***************************************************************************)
\* Identities the process can issue in one run (0 .. MaxWorkers-1).
MaxWorkers == 3
\* Workers created in one run of the message bridge.
MaxBridgeWorkers == 1
\* Host-to-script calls (Load, Send, SendSync) started in one run.
MaxCalls == 3
\* Workers of a host that runs several side by side.
MaxPairWorkers == 2
\* Workers created in one run of the registry, by host threads and callbacks.
MaxRegWorkers == 3

Threads == {"t1", "t2"}
NoThread == "none"
WorkerIds == 0 .. (MaxWorkers - 1)

\* The ScriptOrigin records the host keeps and passes to LoadWithOptions;
\* the host creates them without a ScriptName and never writes one.
OriginRecords == {"o1", "o2"}
\* LoadWithOptions(nil, code): the record is made by the call, for itself.
NilOrigin == "nil"

(***************************************************************************)
(* Texts and their conversions.                                            *)
(***************************************************************************)
\* The messages the host gives SendSync: "", "e-acute" (two bytes of UTF-8)
\* and "a\x00b" (a Go string may hold a zero byte).
Msgs == { <<>>, <<195, 169>>, <<97, 0, 98>> }

\* What a read of released storage may yield besides the bytes once stored.
GarbageTexts == { <<63>> }

RECURSIVE CStr(_)
\* Reading a char* as a C string: the bytes before the first zero byte.
CStr(buf) ==
    IF buf = <<>> \/ Head(buf) = 0 THEN <<>>
    ELSE <<Head(buf)>> \o CStr(Tail(buf))

\* C.CString(s): a copy of the bytes of s followed by a zero byte.
CString(s) == s \o <<0>>

\* C.GoString(p): the bytes of the C string p.
GoString(p) == CStr(p)

RECURSIVE Utf8Decode(_)
\* String::NewFromUtf8: the code points of a UTF-8 byte sequence; a byte
\* that starts no valid sequence becomes U+FFFD.
Utf8Decode(b) ==
    IF b = <<>> THEN <<>>
    ELSE IF Head(b) < 128 THEN <<Head(b)>> \o Utf8Decode(Tail(b))
    ELSE IF /\ Head(b) >= 194 /\ Head(b) <= 223 /\ Len(b) >= 2
            /\ b[2] >= 128 /\ b[2] <= 191
         THEN <<(Head(b) - 192) * 64 + (b[2] - 128)>> \o Utf8Decode(Tail(Tail(b)))
    ELSE <<65533>> \o Utf8Decode(Tail(b))

RECURSIVE Utf8Encode(_)
\* String::Utf8Value: the UTF-8 bytes of a sequence of code points.
Utf8Encode(c) ==
    IF c = <<>> THEN <<>>
    ELSE IF Head(c) < 128 THEN <<Head(c)>> \o Utf8Encode(Tail(c))
    ELSE IF Head(c) < 2048
         THEN <<192 + (Head(c) \div 64), 128 + (Head(c) % 64)>> \o Utf8Encode(Tail(c))
    ELSE <<224 + (Head(c) \div 4096), 128 + ((Head(c) \div 64) % 64), 128 + (Head(c) % 64)>>
         \o Utf8Encode(Tail(c))

\* String::NewFromUtf8(isolate, p) on a char*: the C string at p, decoded.
NewFromUtf8(p) == Utf8Decode(CStr(p))

\* ToCString(String::Utf8Value(v)): the zero-terminated UTF-8 of a JS string.
ToCString(cps) == Utf8Encode(cps) \o <<0>>

\* "err: $recvSync not called"
ErrRecvSyncNotCalled ==
    <<101, 114, 114, 58, 32, 36, 114, 101, 99, 118, 83, 121, 110, 99, 32,
      110, 111, 116, 32, 99, 97, 108, 108, 101, 100>>

\* "err: non-string return value"
ErrNonStringReturn ==
    <<101, 114, 114, 58, 32, 110, 111, 110, 45, 115, 116, 114, 105, 110, 103,
      32, 114, 101, 116, 117, 114, 110, 32, 118, 97, 108, 117, 101>>

(***************************************************************************)
(* JavaScript values, scripts and handler functions.                       *)
(***************************************************************************)
JsStr(cps) == [k |-> "str", v |-> cps]
JsNum == [k |-> "num", v |-> <<>>]
JsUndef == [k |-> "undef", v |-> <<>>]
\* An empty Local<Value>: what Call / Run return when the script threw.
JsEmpty == [k |-> "empty", v |-> <<>>]

I(op, a) == [op |-> op, a |-> a]

\* The handler functions scripts register.
Funcs == {"echo", "num", "fail", "ask"}
NoFunc == "empty"

\* What a function does when called with one argument:
\*   echo  function(m) { return m }
\*   num   function(m) { return 1 }
\*   fail  function(m) { throw new Error() }
\*   ask   function(m) { $send(m); return $sendSync(m) }
Body(f) ==
    CASE f = "echo" -> << I("ret", "arg") >>
      [] f = "num"  -> << I("ret", "num") >>
      [] f = "fail" -> << I("throw", "") >>
      [] f = "ask"  -> << I("send", ""), I("sendSync", ""), I("ret", "acc") >>

\* The sources the host loads.
Sources == {"bad.js", "boom.js", "regA.js", "regB.js"}

\* Script::Compile: bad.js has a syntax error.
Compiles(src) == src # "bad.js"

\* The sources of a host that runs several Workers, one of them calling the
\* host while it is loaded.
PairSources == {"init.js", "regB.js"}

\* The source of a host whose script calls the host while it is loaded.
RegSources == {"host.js"}

\* The sources of a host that registers a sync handler that throws.
CtlSources == {"regA.js", "regC.js"}

\* What a compiled unit does when run:
\*   boom.js  $recvSync(ask); throw new Error()
\*   regA.js  $recv(ask); $recvSync(echo)
\*   regB.js  $recv(fail); $recvSync(num)
\*   regC.js  $recvSync(fail)
\*   init.js  $recvSync(echo); $send(""); $sendSync("")
\*   host.js  $send(""); $sendSync("")
\* A unit of any other name is empty.
Code(src) ==
    CASE src = "boom.js" -> << I("recvSync", "ask"), I("throw", "") >>
      [] src = "regA.js" -> << I("recv", "ask"), I("recvSync", "echo") >>
      [] src = "regB.js" -> << I("recv", "fail"), I("recvSync", "num") >>
      [] src = "regC.js" -> << I("recvSync", "fail") >>
      [] src = "init.js" -> << I("recvSync", "echo"), I("send", ""), I("sendSync", "") >>
      [] src = "host.js" -> << I("send", ""), I("sendSync", "") >>
      [] OTHER -> << >>

(***************************************************************************)
(* Diagnostics: the texts of the last-exception slot.                      *)
(***************************************************************************)
NoDiag == [kind |-> "", origin |-> ""]
\* "$recv not called"
RecvNotCalled == [kind |-> "$recv not called", origin |-> ""]
\* ExceptionString: the diagnostic of a caught fault, attributed to the
\* resource it came from.
ExceptionString(kind, origin) == [kind |-> kind, origin |-> origin]
\* ExceptionString of a TryCatch that caught a termination: Exception() is
\* null and Message() is empty, so the text is "null" and names no resource.
TerminationString == [kind |-> "null", origin |-> ""]
\* The diagnostic of the fault that ended a unit or handler.
FaultString(terminated, origin) ==
    IF terminated THEN TerminationString ELSE ExceptionString("runtime", origin)

(***************************************************************************)
(* The host callbacks given to New.                                        *)
(***************************************************************************)
CallbackPairs == { [cb |-> "cb", syncCB |-> "syncCB"] }

\* A nil func value: New(nil, nil) stores it in the callbacks record as it is.
NilCallback == "nil"

\* The pairs a host may give New: both callbacks, none, and a sync callback
\* whose answer holds a zero byte.
AllCallbackPairs ==
    CallbackPairs \cup { [cb |-> NilCallback, syncCB |-> NilCallback],
                         [cb |-> "cb", syncCB |-> "syncNul"] }

\* A host whose ReceiveMessageCallback creates a Worker:
\*   cbNew  func(msg string) { New(cbNew, syncCB) }
RegCallbackPairs == { [cb |-> "cbNew", syncCB |-> "syncCB"] }

\* The host's ReceiveSyncMessageCallback: it answers "h" followed by the message.
HostSyncReply(msg) == <<104>> \o msg

\* res := fn(msg) in recvSyncCb, for the sync callbacks of the host:
\*   syncCB   func(msg string) string { return "h" + msg }
\*   syncNul  func(msg string) string { return "h\x00" + msg }
HostSyncCall(fn, msg) ==
    IF fn = "syncNul" THEN <<104, 0>> \o msg ELSE HostSyncReply(msg)

(***************************************************************************)
(* Heap statistics.  The engine reports sizes as size_t; a size is kept as *)
(* its 32-bit words: q (the bits above 2^32) and the low word as two       *)
(* 16-bit halves m and l, so its value is q * 2^32 + m * 2^16 + l.         *)
(***************************************************************************)
Size(q, m, l) == [q |-> q, m |-> m, l |-> l]

\* The sizes an engine reports: 0, 1 MiB, 2^31 - 1, 2^31, 2^32 - 1, 2^32.
SizeSamples ==
    { Size(0, 0, 0), Size(0, 16, 0), Size(0, 32767, 65535), Size(0, 32768, 0),
      Size(0, 65535, 65535), Size(1, 0, 0) }

\* a <= b on sizes.
SizeLe(a, b) ==
    \/ a.q < b.q
    \/ a.q = b.q /\ a.m < b.m
    \/ a.q = b.q /\ a.m = b.m /\ a.l <= b.l

\* What Isolate::GetHeapStatistics may report: used <= total <= limit.
EngineHeaps ==
    { [used_heap_size |-> u, total_heap_size |-> tt, heap_size_limit |-> lim] :
        u \in SizeSamples, tt \in SizeSamples, lim \in SizeSamples }

ValidHeaps == { e \in EngineHeaps : /\ SizeLe(e.used_heap_size, e.total_heap_size)
                                    /\ SizeLe(e.total_heap_size, e.heap_size_limit) }

\* A heap of one small size, for runs that are not about the sizes.
SmallHeaps == { e \in ValidHeaps : e.heap_size_limit = Size(0, 16, 0) }

\* The assignment of a size_t to an int field of heap_statistics_s: the low
\* 32 bits, read as a two's-complement number; int(hs.field) in Go keeps
\* that value.
ToInt(sz) ==
    IF sz.m >= 32768 THEN (sz.m - 65536) * 65536 + sz.l ELSE sz.m * 65536 + sz.l

\* worker_get_heap_statistics and the HeapStatistics the Go side builds;
\* malloced_memory is never assigned and stays 0.
HeapSnapshot(e) ==
    [TotalHeapSize |-> ToInt(e.total_heap_size),
     UsedHeapSize |-> ToInt(e.used_heap_size),
     HeapSizeLimit |-> ToInt(e.heap_size_limit),
     MallocedMemory |-> 0]

NoSnapshot == [TotalHeapSize |-> 0, UsedHeapSize |-> 0, HeapSizeLimit |-> 0,
               MallocedMemory |-> 0]

(***************************************************************************)
(* State.                                                                  *)
(***************************************************************************)
VARIABLES
    workerIdSequence,        \* worker.go: workerIdSequence
    workerIdSequenceLocker,  \* the thread inside nextWorkerId, or NoThread
    callbacksMap,            \* worker.go: callbacksMap (identity -> callbacks)
    ctx,                     \* per identity: "none" | "live" | "disposed" (worker_s, its isolate)
    isolateLock,             \* per identity: the thread holding v8::Locker, or NoThread
    recv,                    \* per identity: worker_s.recv
    recv_sync_handler,       \* per identity: worker_s.recv_sync_handler
    last_exception,          \* per identity: worker_s.last_exception
    fin,                     \* per identity: "unset" | "armed" | "disposed" | "done" (the finalizer)
    th,                      \* per thread: the call it is in and its position
    res,                     \* per thread: what the call that returned in the last step handed to the host
    issued,                  \* history: the identities nextWorkerId has returned, in order
    lastReg,                 \* history: per identity and kind, the callable last given to $recv / $recvSync
    ncalls,                  \* host-to-script calls started
    crashed,                 \* "no", or how the process died
    scriptSequence,          \* worker.go: scriptSequence
    scriptSequenceLocker,    \* the thread inside nextScriptName, or NoThread
    origins,                 \* per ScriptOrigin record of the host: its ScriptName
    named,                   \* history: the loads given no name, with the name each was attributed
    terminating,             \* per identity: a TerminateExecution request is pending in the isolate
    callbacksMapLocker       \* worker.go: callbacksMapLocker (who holds it, who waits for it)

vars == << workerIdSequence, workerIdSequenceLocker, callbacksMap, ctx, isolateLock,
           recv, recv_sync_handler, last_exception, fin, th, res, issued,
           lastReg, ncalls, crashed, scriptSequence, scriptSequenceLocker,
           origins, named, terminating, callbacksMapLocker >>

\* The state of the script names and of execution control.
auxVars == << scriptSequence, scriptSequenceLocker, origins, named, terminating,
             callbacksMapLocker >>

workerVars == << ctx, isolateLock, recv, recv_sync_handler, last_exception >>
idVars == << workerIdSequence, workerIdSequenceLocker, issued >>

Idle ==
    [pc |-> "idle", op |-> "none", w |-> 0, id |-> 0, msg |-> <<>>, src |-> "",
     code |-> <<>>, ip |-> 1, arg |-> <<>>, acc |-> JsUndef, retv |-> JsUndef,
     caught |-> FALSE, r |-> 0, reply |-> <<>>, dangling |-> FALSE,
     fn |-> NoFunc, compiled |-> FALSE, runs |-> 0, invoked |-> 0, regs |-> 0,
     diag |-> NoDiag, cbmsg |-> <<>>, hostfn |-> NilCallback, cbret |-> <<>>,
     synccalls |-> 0, terminated |-> FALSE, interrupted |-> FALSE, o |-> "",
     name |-> "", cbpc |-> "", cbid |-> 0]

NoRes ==
    [op |-> "none", w |-> 0, msg |-> <<>>, src |-> "", ok |-> TRUE, err |-> NoDiag,
     diag |-> NoDiag, reply |-> <<>>, retk |-> "none", fn |-> NoFunc,
     compiled |-> FALSE, runs |-> 0, invoked |-> 0, regs |-> 0, r |-> 0,
     terminated |-> FALSE, interrupted |-> FALSE, hs |-> NoSnapshot, name |-> "",
     o |-> ""]

\* A sync.RWMutex nobody holds or waits for: no writer, no readers, no
\* Lock call pending.
RWUnlocked == [writer |-> NoThread, readers |-> {}, pending |-> {}]

Alive == crashed = "no"

\* A step that returns nothing to the host leaves no result behind.
Forget == res' = [x \in Threads |-> NoRes]
\* The step in which thread t's call returns r to the host.
Result(t, r) == [x \in Threads |-> IF x = t THEN r ELSE NoRes]

Init ==
    /\ workerIdSequence = 0
    /\ workerIdSequenceLocker = NoThread
    /\ callbacksMap = << >>
    /\ ctx = [i \in WorkerIds |-> "none"]
    /\ isolateLock = [i \in WorkerIds |-> NoThread]
    /\ recv = [i \in WorkerIds |-> NoFunc]
    /\ recv_sync_handler = [i \in WorkerIds |-> NoFunc]
    /\ last_exception = [i \in WorkerIds |-> NoDiag]
    /\ fin = [i \in WorkerIds |-> "unset"]
    /\ th = [t \in Threads |-> Idle]
    /\ res = [t \in Threads |-> NoRes]
    /\ issued = << >>
    /\ lastReg = [i \in WorkerIds |-> [async |-> NoFunc, sync |-> NoFunc]]
    /\ ncalls = 0
    /\ crashed = "no"
    /\ scriptSequence = 0
    /\ scriptSequenceLocker = NoThread
    /\ origins = [o \in OriginRecords |-> ""]
    /\ named = << >>
    /\ terminating = [i \in WorkerIds |-> FALSE]
    /\ callbacksMapLocker = RWUnlocked

\* The process dies (a Go panic, an abort, a fault): nothing of its state
\* is left but the way it died.
Crash(how) ==
    /\ crashed' = how
    /\ workerIdSequence' = 0
    /\ workerIdSequenceLocker' = NoThread
    /\ callbacksMap' = << >>
    /\ ctx' = [i \in WorkerIds |-> "none"]
    /\ isolateLock' = [i \in WorkerIds |-> NoThread]
    /\ recv' = [i \in WorkerIds |-> NoFunc]
    /\ recv_sync_handler' = [i \in WorkerIds |-> NoFunc]
    /\ last_exception' = [i \in WorkerIds |-> NoDiag]
    /\ fin' = [i \in WorkerIds |-> "unset"]
    /\ th' = [t \in Threads |-> Idle]
    /\ res' = [t \in Threads |-> NoRes]
    /\ issued' = << >>
    /\ lastReg' = [i \in WorkerIds |-> [async |-> NoFunc, sync |-> NoFunc]]
    /\ ncalls' = 0
    /\ scriptSequence' = 0
    /\ scriptSequenceLocker' = NoThread
    /\ origins' = [o \in OriginRecords |-> ""]
    /\ named' = << >>
    /\ terminating' = [i \in WorkerIds |-> FALSE]
    /\ callbacksMapLocker' = RWUnlocked

(***************************************************************************)
(* The registry: a Go map guarded by callbacksMapLocker.  Each locked      *)
(* region (Lock .. Unlock, RLock .. RUnlock) is one step.                  *)
(***************************************************************************)
MapSet(m, k, v) == [i \in (DOMAIN m) \cup {k} |-> IF i = k THEN v ELSE m[i]]
MapDelete(m, k) == [i \in (DOMAIN m) \ {k} |-> m[i]]
MapHas(m, k) == k \in DOMAIN m

\* callbacksMapLocker, a sync.RWMutex.  The parties that use it are the host
\* threads and the finalizer goroutine.
FinalizerGoroutine == "fin"

\* RLock returns when no writer holds the mutex and no Lock call is pending.
RWCanRLock(m) == m.writer = NoThread /\ m.pending = {}
RWRLock(m, p) == [m EXCEPT !.readers = @ \cup {p}]
\* A read lock that is kept.
RWRUnlockKept(m, p) == m
RWRUnlock(m, p) == [m EXCEPT !.readers = @ \ {p}]
\* Lock announces itself, which holds back new readers, and returns when the
\* writer and the readers before it have left.
RWLockCall(m, p) == [m EXCEPT !.pending = @ \cup {p}]
RWCanLock(m, p) == p \in m.pending /\ m.writer = NoThread /\ m.readers = {}
RWLock(m, p) == [m EXCEPT !.writer = p, !.pending = @ \ {p}]
RWUnlock(m, p) == [m EXCEPT !.writer = NoThread]

(***************************************************************************)
(* New: nextWorkerId, the registry entry, worker_new, SetFinalizer.        *)
(***************************************************************************)
\* A nextWorkerId that takes no lock.
MutexFreeAlways(holder) == TRUE

\* sync.Mutex.Lock can be taken when no thread holds the mutex.
MutexFree(holder) == holder = NoThread

\* nextWorkerId, first half: Lock; seq := workerIdSequence
NewIdRead(t, max) ==
    /\ Alive
    /\ th[t].pc = "idle"
    /\ workerIdSequence < max
    /\ MutexFree(workerIdSequenceLocker)
    /\ workerIdSequenceLocker' = t
    /\ th' = [th EXCEPT ![t] = [Idle EXCEPT !.pc = "new_incr", !.op = "new",
                                            !.id = workerIdSequence]]
    /\ Forget
    /\ UNCHANGED << workerIdSequence, issued, callbacksMap, workerVars, fin,
                    lastReg, ncalls, crashed, auxVars >>

\* nextWorkerId, second half: workerIdSequence++; Unlock; return seq
NewIdIncr(t) ==
    /\ Alive
    /\ th[t].pc = "new_incr"
    /\ workerIdSequence' = workerIdSequence + 1
    /\ workerIdSequenceLocker' = NoThread
    /\ issued' = Append(issued, th[t].id)
    /\ th' = [th EXCEPT ![t].pc = "new_register"]
    /\ Forget
    /\ UNCHANGED << callbacksMap, workerVars, fin, lastReg, ncalls, crashed, auxVars >>

\* A New that forgets the registry entry.
RegisterEntrySkipped(m, id, cbs) == m

\* callbacksMap[id] = cbWrapper, under callbacksMapLocker.Lock
RegisterEntry(m, id, cbs) == MapSet(m, id, cbs)

NewRegister(t, pairs) ==
    /\ Alive
    /\ th[t].pc = "new_register"
    /\ \E cbs \in pairs :
          callbacksMap' = RegisterEntry(callbacksMap, th[t].id, cbs)
    /\ th' = [th EXCEPT ![t].pc = "new_worker"]
    /\ Forget
    /\ UNCHANGED << idVars, workerVars, fin, lastReg, ncalls, crashed, auxVars >>

\* worker_new: a fresh isolate and context, both handler slots empty; then
\* SetFinalizer and return of the *Worker to the host.
NewWorker(t) ==
    /\ Alive
    /\ th[t].pc = "new_worker"
    /\ th[t].id \in WorkerIds
    /\ ctx' = [ctx EXCEPT ![th[t].id] = "live"]
    /\ recv' = [recv EXCEPT ![th[t].id] = NoFunc]
    /\ recv_sync_handler' = [recv_sync_handler EXCEPT ![th[t].id] = NoFunc]
    /\ last_exception' = [last_exception EXCEPT ![th[t].id] = NoDiag]
    /\ isolateLock' = [isolateLock EXCEPT ![th[t].id] = NoThread]
    /\ fin' = [fin EXCEPT ![th[t].id] = "armed"]
    /\ th' = [th EXCEPT ![t] = Idle]
    /\ res' = Result(t, [NoRes EXCEPT !.op = "new", !.w = th[t].id])
    /\ UNCHANGED << idVars, callbacksMap, lastReg, ncalls, crashed, auxVars >>

(***************************************************************************)
(* The garbage collector and the finalizer.                                *)
(***************************************************************************)
\* A frame of Load or Send uses w again after the C call (to read
\* worker_last_exception), so the Worker stays reachable for its length; a
\* frame of SendSync reads w.cWorker once, before the call.
KeepsAlive(t, w) ==
    /\ th[t].pc # "idle"
    /\ th[t].w = w
    /\ th[t].op \in {"load", "send"}

\* The threads inside a C call on worker w.
InC == {"enter", "script", "cb_lookup", "cb_read", "cb_runlock", "cb_run",
        "scb_lookup", "scb_read", "scb_runlock", "scb_run"}
InFlight(w) == { t \in Threads : th[t].pc \in InC /\ th[t].w = w }

\* The finalizer goroutine runs one finalizer at a time: it is busy from the
\* first statement of a finalizer to its last.
FinalizerBusy == \E v \in WorkerIds : fin[v] \in {"disposed", "fin_wait", "fin_locked"}

\* The host drops its last reference to the *Worker, the collector finds it
\* unreachable and the finalizer runs its first statement:
\* C.worker_dispose(final_worker.cWorker).
FinalizerDispose(w) ==
    /\ Alive
    /\ fin[w] = "armed"
    /\ \A t \in Threads : ~KeepsAlive(t, w)
    /\ ~FinalizerBusy
    /\ ctx' = [ctx EXCEPT ![w] = "disposed"]
    /\ fin' = [fin EXCEPT ![w] = "disposed"]
    /\ Forget
    /\ UNCHANGED << idVars, callbacksMap, isolateLock, recv, recv_sync_handler,
                    last_exception, th, lastReg, ncalls, crashed, auxVars >>

\* delete(callbacksMap, id), under callbacksMapLocker.Lock
UnregisterEntry(m, id) == MapDelete(m, id)

\* The finalizer, second statement.
FinalizerUnregister(w) ==
    /\ Alive
    /\ fin[w] = "disposed"
    /\ callbacksMap' = UnregisterEntry(callbacksMap, w)
    /\ fin' = [fin EXCEPT ![w] = "done"]
    /\ Forget
    /\ UNCHANGED << idVars, workerVars, th, lastReg, ncalls, crashed, auxVars >>

\* A thread inside a C call on a Worker that was disposed under it touches
\* released storage (worker_s, the isolate): the process may die there.
UseAfterDispose(t) ==
    /\ Alive
    /\ t \in InFlight(th[t].w)
    /\ ctx[th[t].w] = "disposed"
    /\ Crash("fault")

(***************************************************************************)
(* v8::Locker: a scoped lock on the isolate, recursive per thread.  A      *)
(* Locker constructed by the thread that already holds the isolate takes   *)
(* nothing (has_lock_ is false) and its destructor releases nothing.       *)
(***************************************************************************)
LockerCanEnter(holder, t) == holder = NoThread \/ holder = t
LockerHasLock(holder, t) == holder # t
LockerEnter(holder, t) == t
\* A lock that is not recursive: every destructor releases it.
LockerExitAlways(holder, t, has_lock) == NoThread
LockerExit(holder, t, has_lock) == IF has_lock THEN NoThread ELSE holder

\* The Workers the host can call: New has returned and the host still
\* references the *Worker (the finalizer has not run).
Callable(w) == fin[w] = "armed"

(***************************************************************************)
(* Load: Worker.LoadWithOptions and worker_load.                           *)
(***************************************************************************)
\* The Go side up to the cgo call.
LoadStart(t, srcs) ==
    /\ Alive
    /\ th[t].pc = "idle"
    /\ ncalls < MaxCalls
    /\ \E w \in WorkerIds, src \in srcs :
          /\ Callable(w)
          /\ th' = [th EXCEPT ![t] = [Idle EXCEPT !.pc = "enter", !.op = "load",
                                                  !.w = w, !.src = src]]
    /\ ncalls' = ncalls + 1
    /\ Forget
    /\ UNCHANGED << idVars, callbacksMap, workerVars, fin, lastReg, crashed, auxVars >>

\* A fault that is swallowed.
RunResultSwallowed(caught) == 0

\* worker_load's return value after script->Run().
RunResult(caught) == IF caught THEN 2 ELSE 0

\* worker_load up to script->Run(): the Locker, Script::Compile.
LoadEnter(t) ==
    /\ Alive
    /\ th[t].pc = "enter" /\ th[t].op = "load"
    /\ LockerCanEnter(isolateLock[th[t].w], t)
    /\ LET w == th[t].w
           d == ExceptionString("compile", th[t].src)
       IN  IF ~Compiles(th[t].src)
           THEN /\ last_exception' = [last_exception EXCEPT ![w] = d]
                /\ th' = [th EXCEPT ![t].pc = "go_ret", ![t].r = 1, ![t].diag = d]
                /\ UNCHANGED isolateLock
           ELSE /\ isolateLock' = [isolateLock EXCEPT ![w] = LockerEnter(@, t)]
                /\ th' = [th EXCEPT ![t].pc = "script", ![t].compiled = TRUE,
                                    ![t].code = Code(th[t].src), ![t].ip = 1,
                                    ![t].runs = @ + 1]
                /\ UNCHANGED last_exception
    /\ Forget
    /\ UNCHANGED << idVars, callbacksMap, ctx, recv, recv_sync_handler, fin,
                    lastReg, ncalls, crashed, auxVars >>

\* worker_load after script->Run(): result.IsEmpty(), the return, ~Locker.
LoadExit(t) ==
    /\ Alive
    /\ th[t].pc = "script" /\ th[t].op = "load"
    /\ th[t].ip > Len(th[t].code)
    /\ LET w == th[t].w
           d == FaultString(th[t].terminated, th[t].src)
       IN  /\ IF th[t].caught
              THEN /\ last_exception' = [last_exception EXCEPT ![w] = d]
                   /\ th' = [th EXCEPT ![t].pc = "go_ret", ![t].diag = d,
                                       ![t].r = RunResult(th[t].caught)]
              ELSE /\ UNCHANGED last_exception
                   /\ th' = [th EXCEPT ![t].pc = "go_ret",
                                       ![t].r = RunResult(th[t].caught)]
           /\ isolateLock' = [isolateLock EXCEPT ![w] = LockerExit(@, t, TRUE)]
    /\ Forget
    /\ UNCHANGED << idVars, callbacksMap, ctx, recv, recv_sync_handler, fin,
                    lastReg, ncalls, crashed, auxVars >>

\* What Load and Send hand to the host: nil when r is 0, else
\* errors.New(C.GoString(C.worker_last_exception(w.cWorker))), the slot as it
\* is when this read runs.
HostError(r, slot) == IF r # 0 THEN slot ELSE NoDiag

\* The Go side after the cgo call returned.
LoadReturn(t) ==
    /\ Alive
    /\ th[t].pc = "go_ret" /\ th[t].op = "load"
    /\ res' = Result(t,
                 [NoRes EXCEPT !.op = "load", !.w = th[t].w, !.src = th[t].src,
                               !.r = th[t].r, !.ok = (th[t].r = 0),
                               !.err = HostError(th[t].r, last_exception[th[t].w]),
                               !.diag = th[t].diag, !.compiled = th[t].compiled,
                               !.runs = th[t].runs, !.regs = th[t].regs,
                               !.terminated = th[t].terminated,
                               !.interrupted = th[t].interrupted])
    /\ th' = [th EXCEPT ![t] = Idle]
    /\ UNCHANGED << idVars, callbacksMap, workerVars, fin, lastReg, ncalls, crashed, auxVars >>

(***************************************************************************)
(* LoadWithOptions with an origin that has no ScriptName: nextScriptName.  *)
(***************************************************************************)
\* "VM" + strconv.Itoa(seq)
ScriptName(seq) == "VM" \o ToString(seq)

\* origin.ScriptName as the call of thread t reads it.
OriginName(t) == IF th[t].o = NilOrigin THEN th[t].name ELSE origins[th[t].o]

\* LoadWithOptions up to the test origin.ScriptName == "".
LoadWithOptionsStart(t) ==
    /\ Alive
    /\ th[t].pc = "idle"
    /\ ncalls < MaxCalls
    /\ \E w \in WorkerIds, o \in OriginRecords \cup {NilOrigin} :
          /\ Callable(w)
          /\ th' = [th EXCEPT ![t] =
                       [Idle EXCEPT !.pc = IF o = NilOrigin \/ origins[o] = ""
                                           THEN "name_read" ELSE "name_use",
                                    !.op = "load", !.w = w, !.o = o]]
    /\ ncalls' = ncalls + 1
    /\ Forget
    /\ UNCHANGED << idVars, callbacksMap, workerVars, fin, lastReg, crashed, auxVars >>

\* nextScriptName, first half: Lock; seq := scriptSequence
NameRead(t) ==
    /\ Alive
    /\ th[t].pc = "name_read"
    /\ MutexFree(scriptSequenceLocker)
    /\ scriptSequenceLocker' = t
    /\ th' = [th EXCEPT ![t].pc = "name_incr", ![t].id = scriptSequence]
    /\ Forget
    /\ UNCHANGED << idVars, callbacksMap, workerVars, fin, lastReg, ncalls, crashed,
                    scriptSequence, origins, named, terminating,
                    callbacksMapLocker >>

\* nextScriptName, second half: scriptSequence++; Unlock; return "VM" + seq
NameIncr(t) ==
    /\ Alive
    /\ th[t].pc = "name_incr"
    /\ scriptSequence' = scriptSequence + 1
    /\ scriptSequenceLocker' = NoThread
    /\ th' = [th EXCEPT ![t].pc = "name_write", ![t].name = ScriptName(th[t].id)]
    /\ Forget
    /\ UNCHANGED << idVars, callbacksMap, workerVars, fin, lastReg, ncalls, crashed,
                    origins, named, terminating,
                    callbacksMapLocker >>

\* origin.ScriptName = <the name returned>: a write to the caller's record.
NameWrite(t) ==
    /\ Alive
    /\ th[t].pc = "name_write"
    /\ origins' = IF th[t].o = NilOrigin THEN origins
                  ELSE [origins EXCEPT ![th[t].o] = th[t].name]
    /\ th' = [th EXCEPT ![t].pc = "name_use"]
    /\ Forget
    /\ UNCHANGED << idVars, callbacksMap, workerVars, fin, lastReg, ncalls, crashed,
                    scriptSequence, scriptSequenceLocker, named, terminating,
                    callbacksMapLocker >>

\* cScriptName := C.CString(origin.ScriptName): the name the load is
\* attributed; then the cgo call.
NameUse(t) ==
    /\ Alive
    /\ th[t].pc = "name_use"
    /\ named' = Append(named, OriginName(t))
    /\ th' = [th EXCEPT ![t].pc = "enter", ![t].src = OriginName(t),
                        ![t].name = OriginName(t)]
    /\ Forget
    /\ UNCHANGED << idVars, callbacksMap, workerVars, fin, lastReg, ncalls, crashed,
                    scriptSequence, scriptSequenceLocker, origins, terminating,
                    callbacksMapLocker >>

(***************************************************************************)
(* Send: Worker.Send and worker_send.                                      *)
(***************************************************************************)
SendStart(t) ==
    /\ Alive
    /\ th[t].pc = "idle"
    /\ ncalls < MaxCalls
    /\ \E w \in WorkerIds :
          /\ Callable(w)
          /\ th' = [th EXCEPT ![t] = [Idle EXCEPT !.pc = "enter", !.op = "send",
                                                  !.w = w, !.msg = <<97>>]]
    /\ ncalls' = ncalls + 1
    /\ Forget
    /\ UNCHANGED << idVars, callbacksMap, workerVars, fin, lastReg, crashed, auxVars >>

\* Local<Function>::New(w->isolate, slot): the callable a slot holds now.
HandlerIn(slot) == slot

\* worker_send up to recv->Call: the Locker, the slot, the argument.
SendEnter(t) ==
    /\ Alive
    /\ th[t].pc = "enter" /\ th[t].op = "send"
    /\ LockerCanEnter(isolateLock[th[t].w], t)
    /\ LET w == th[t].w
           f == HandlerIn(recv[w])
       IN  IF f = NoFunc
           THEN /\ last_exception' = [last_exception EXCEPT ![w] = RecvNotCalled]
                /\ th' = [th EXCEPT ![t].pc = "go_ret", ![t].r = 1,
                                    ![t].diag = RecvNotCalled]
                /\ UNCHANGED isolateLock
           ELSE /\ isolateLock' = [isolateLock EXCEPT ![w] = LockerEnter(@, t)]
                /\ th' = [th EXCEPT ![t].pc = "script", ![t].fn = f,
                                    ![t].code = Body(f), ![t].ip = 1,
                                    ![t].arg = NewFromUtf8(CString(th[t].msg)),
                                    ![t].invoked = @ + 1]
                /\ UNCHANGED last_exception
    /\ Forget
    /\ UNCHANGED << idVars, callbacksMap, ctx, recv, recv_sync_handler, fin,
                    lastReg, ncalls, crashed, auxVars >>

\* worker_send after recv->Call: try_catch.HasCaught(), the return, ~Locker.
SendExit(t) ==
    /\ Alive
    /\ th[t].pc = "script" /\ th[t].op = "send"
    /\ th[t].ip > Len(th[t].code)
    /\ LET w == th[t].w
           d == FaultString(th[t].terminated, th[t].fn)
       IN  /\ IF th[t].caught
              THEN /\ last_exception' = [last_exception EXCEPT ![w] = d]
                   /\ th' = [th EXCEPT ![t].pc = "go_ret", ![t].diag = d,
                                       ![t].r = RunResult(th[t].caught)]
              ELSE /\ UNCHANGED last_exception
                   /\ th' = [th EXCEPT ![t].pc = "go_ret",
                                       ![t].r = RunResult(th[t].caught)]
           /\ isolateLock' = [isolateLock EXCEPT ![w] = LockerExit(@, t, TRUE)]
    /\ Forget
    /\ UNCHANGED << idVars, callbacksMap, ctx, recv, recv_sync_handler, fin,
                    lastReg, ncalls, crashed, auxVars >>

SendReturn(t) ==
    /\ Alive
    /\ th[t].pc = "go_ret" /\ th[t].op = "send"
    /\ res' = Result(t,
                 [NoRes EXCEPT !.op = "send", !.w = th[t].w, !.msg = th[t].msg,
                               !.r = th[t].r, !.ok = (th[t].r = 0),
                               !.err = HostError(th[t].r, last_exception[th[t].w]),
                               !.diag = th[t].diag, !.fn = th[t].fn,
                               !.invoked = th[t].invoked, !.regs = th[t].regs,
                               !.terminated = th[t].terminated,
                               !.interrupted = th[t].interrupted])
    /\ th' = [th EXCEPT ![t] = Idle]
    /\ UNCHANGED << idVars, callbacksMap, workerVars, fin, lastReg, ncalls, crashed, auxVars >>

(***************************************************************************)
(* SendSync: Worker.SendSync and worker_send_sync.                         *)
(***************************************************************************)
SendSyncStart(t) ==
    /\ Alive
    /\ th[t].pc = "idle"
    /\ ncalls < MaxCalls
    /\ \E w \in WorkerIds, m \in Msgs :
          /\ Callable(w)
          /\ th' = [th EXCEPT ![t] = [Idle EXCEPT !.pc = "enter", !.op = "sendSync",
                                                  !.w = w, !.msg = m]]
    /\ ncalls' = ncalls + 1
    /\ Forget
    /\ UNCHANGED << idVars, callbacksMap, workerVars, fin, lastReg, crashed, auxVars >>

\* worker_send_sync up to recv_sync_handler->Call.
SendSyncEnter(t) ==
    /\ Alive
    /\ th[t].pc = "enter" /\ th[t].op = "sendSync"
    /\ LockerCanEnter(isolateLock[th[t].w], t)
    /\ LET w == th[t].w
           f == HandlerIn(recv_sync_handler[w])
       IN  IF f = NoFunc
           THEN /\ th' = [th EXCEPT ![t].pc = "go_ret",
                                    ![t].reply = CString(ErrRecvSyncNotCalled),
                                    ![t].dangling = FALSE]
                /\ UNCHANGED isolateLock
           ELSE /\ isolateLock' = [isolateLock EXCEPT ![w] = LockerEnter(@, t)]
                /\ th' = [th EXCEPT ![t].pc = "script", ![t].fn = f,
                                    ![t].code = Body(f), ![t].ip = 1,
                                    ![t].arg = NewFromUtf8(CString(th[t].msg)),
                                    ![t].invoked = @ + 1]
    /\ Forget
    /\ UNCHANGED << idVars, callbacksMap, ctx, recv, recv_sync_handler, last_exception,
                    fin, lastReg, ncalls, crashed, auxVars >>

\* A worker_send_sync that builds the sentinel in the local std::string too.
SendSyncResponseLocal(v) ==
    IF v.k = "str"
    THEN [reply |-> CString(CStr(ToCString(v.v))), dangling |-> TRUE]
    ELSE [reply |-> CString(ErrNonStringReturn), dangling |-> TRUE]

\* worker_send_sync after the call: a string result is copied into the local
\* std::string out and out.c_str() is returned (out is destroyed by the
\* return, so the pointer dangles); any other result yields the literal.
SendSyncResponse(v) ==
    IF v.k = "str"
    THEN [reply |-> CString(CStr(ToCString(v.v))), dangling |-> TRUE]
    ELSE [reply |-> CString(ErrNonStringReturn), dangling |-> FALSE]

\* response_value->IsString() on an empty handle (the handler threw) reads
\* through a null pointer: the process dies, or the read yields anything.
SendSyncExit(t) ==
    /\ Alive
    /\ th[t].pc = "script" /\ th[t].op = "sendSync"
    /\ th[t].ip > Len(th[t].code)
    /\ LET w == th[t].w
       IN  \/ /\ th[t].retv.k # "empty"
              /\ th' = [th EXCEPT ![t].pc = "go_ret",
                                  ![t].reply = SendSyncResponse(th[t].retv).reply,
                                  ![t].dangling = SendSyncResponse(th[t].retv).dangling]
              /\ isolateLock' = [isolateLock EXCEPT ![w] = LockerExit(@, t, TRUE)]
              /\ Forget
              /\ UNCHANGED << idVars, callbacksMap, ctx, recv, recv_sync_handler,
                              last_exception, fin, lastReg, ncalls, crashed, auxVars >>
           \/ /\ th[t].retv.k = "empty"
              /\ Crash(IF th[t].terminated /\ th[t].interrupted
                       THEN "empty_handle_terminated" ELSE "empty_handle")
           \/ /\ th[t].retv.k = "empty"
              /\ \E g \in GarbageTexts \cup {ErrNonStringReturn} :
                    th' = [th EXCEPT ![t].pc = "go_ret", ![t].reply = CString(g),
                                     ![t].dangling = FALSE]
              /\ isolateLock' = [isolateLock EXCEPT ![w] = LockerExit(@, t, TRUE)]
              /\ Forget
              /\ UNCHANGED << idVars, callbacksMap, ctx, recv, recv_sync_handler,
                              last_exception, fin, lastReg, ncalls, crashed, auxVars >>

\* C.GoString(svalue) on the returned pointer: a pointer into released
\* storage reads the bytes once stored there or whatever replaced them.
ReadReply(p, dangling) == IF dangling THEN {GoString(p)} \cup GarbageTexts ELSE {GoString(p)}

SendSyncReturn(t) ==
    /\ Alive
    /\ th[t].pc = "go_ret" /\ th[t].op = "sendSync"
    /\ \E s \in ReadReply(th[t].reply, th[t].dangling) :
          res' = Result(t,
                    [NoRes EXCEPT !.op = "sendSync", !.w = th[t].w, !.msg = th[t].msg,
                                  !.reply = s, !.fn = th[t].fn, !.retk = th[t].retv.k,
                                  !.invoked = th[t].invoked, !.regs = th[t].regs,
                                  !.terminated = th[t].terminated,
                               !.interrupted = th[t].interrupted])
    /\ th' = [th EXCEPT ![t] = Idle]
    /\ UNCHANGED << idVars, callbacksMap, workerVars, fin, lastReg, ncalls, crashed, auxVars >>

(***************************************************************************)
(* Script execution: one step per statement of the running unit or handler.*)
(***************************************************************************)
Running(t) ==
    /\ Alive
    /\ th[t].pc = "script"
    /\ th[t].ip <= Len(th[t].code)

Stmt(t) == th[t].code[th[t].ip]

\* Isolates that all carry the worker_s of identity 0.
GetDataShared(isolate) == 0

\* isolate->GetData(0): the worker_s that worker_new attached to the isolate
\* with SetData(0, w); an isolate is named by the identity of its Worker.
GetData(isolate) == isolate

\* A slot that keeps its first callable.
SlotResetKeepFirst(old, func) == IF old = NoFunc THEN func ELSE old

\* Persistent<Function>::Reset(isolate, func): the slot holds func alone.
SlotReset(old, func) == func

\* $recv(f): Recv.
ScriptRecv(t) ==
    /\ Running(t)
    /\ Stmt(t).op = "recv"
    /\ recv' = [recv EXCEPT ![GetData(th[t].w)] = SlotReset(@, Stmt(t).a)]
    /\ lastReg' = [lastReg EXCEPT ![th[t].w].async = Stmt(t).a]
    /\ th' = [th EXCEPT ![t].ip = @ + 1, ![t].regs = @ + 1]
    /\ Forget
    /\ UNCHANGED << idVars, callbacksMap, ctx, isolateLock, recv_sync_handler,
                    last_exception, fin, ncalls, crashed, auxVars >>

\* $recvSync(f): RecvSync.
ScriptRecvSync(t) ==
    /\ Running(t)
    /\ Stmt(t).op = "recvSync"
    /\ recv_sync_handler' = [recv_sync_handler EXCEPT
                                ![GetData(th[t].w)] = SlotReset(@, Stmt(t).a)]
    /\ lastReg' = [lastReg EXCEPT ![th[t].w].sync = Stmt(t).a]
    /\ th' = [th EXCEPT ![t].ip = @ + 1, ![t].regs = @ + 1]
    /\ Forget
    /\ UNCHANGED << idVars, callbacksMap, ctx, isolateLock, recv, last_exception,
                    fin, ncalls, crashed, auxVars >>

\* return <value>: the unit or handler ends with a value.
ScriptReturn(t) ==
    /\ Running(t)
    /\ Stmt(t).op = "ret"
    /\ th' = [th EXCEPT ![t].ip = Len(th[t].code) + 1,
                        ![t].retv = CASE Stmt(t).a = "arg" -> JsStr(th[t].arg)
                                      [] Stmt(t).a = "acc" -> th[t].acc
                                      [] OTHER -> JsNum]
    /\ Forget
    /\ UNCHANGED << idVars, callbacksMap, workerVars, fin, lastReg, ncalls, crashed, auxVars >>

\* throw: an uncaught fault ends the unit or handler; Run / Call return an
\* empty handle and the TryCatch has caught.
ScriptThrow(t) ==
    /\ Running(t)
    /\ Stmt(t).op = "throw"
    /\ th' = [th EXCEPT ![t].ip = Len(th[t].code) + 1, ![t].caught = TRUE,
                        ![t].retv = JsEmpty]
    /\ Forget
    /\ UNCHANGED << idVars, callbacksMap, workerVars, fin, lastReg, ncalls, crashed, auxVars >>

\* $send(m): Send up to the call of recvCb.  The inner Locker is taken and
\* released by the thread that already holds the isolate.
ScriptSend(t) ==
    /\ Running(t)
    /\ Stmt(t).op = "send"
    /\ LET w == th[t].w
           has_lock == LockerHasLock(isolateLock[w], t)
       IN  isolateLock' = [isolateLock EXCEPT
                             ![w] = LockerExit(LockerEnter(@, t), t, has_lock)]
    /\ th' = [th EXCEPT ![t].pc = "cb_lookup",
                        ![t].cbmsg = GoString(ToCString(th[t].arg))]
    /\ Forget
    /\ UNCHANGED << idVars, callbacksMap, ctx, recv, recv_sync_handler, last_exception,
                    fin, lastReg, ncalls, crashed, auxVars >>

\* $sendSync(m): SendSync up to the call of recvSyncCb.
ScriptSendSync(t) ==
    /\ Running(t)
    /\ Stmt(t).op = "sendSync"
    /\ LET w == th[t].w
           has_lock == LockerHasLock(isolateLock[w], t)
       IN  isolateLock' = [isolateLock EXCEPT
                             ![w] = LockerExit(LockerEnter(@, t), t, has_lock)]
    /\ th' = [th EXCEPT ![t].pc = "scb_lookup",
                        ![t].cbmsg = GoString(ToCString(th[t].arg))]
    /\ Forget
    /\ UNCHANGED << idVars, callbacksMap, ctx, recv, recv_sync_handler, last_exception,
                    fin, lastReg, ncalls, crashed, auxVars >>

(***************************************************************************)
(* recvCb / recvSyncCb: the registry lookup and the host callback.         *)
(***************************************************************************)
\* recvCb: RLock; fn := callbacksMap[workerId].cb; RUnlock.  For an absent
\* key the map yields a nil *callbacks and .cb dereferences it: a panic.
RecvCbLookup(t) ==
    /\ Alive
    /\ th[t].pc = "cb_lookup"
    /\ IF MapHas(callbacksMap, th[t].w)
       THEN /\ th' = [th EXCEPT ![t].pc = "cb_run",
                                ![t].hostfn = callbacksMap[th[t].w].cb]
            /\ Forget
            /\ UNCHANGED << idVars, callbacksMap, workerVars, fin, lastReg,
                            ncalls, crashed, auxVars >>
       ELSE Crash("nil_deref")

\* The callback cbNew returns when its New has returned (and creates no
\* Worker once the run has created MaxRegWorkers).
CallbackDone(t) ==
    th[t].hostfn = "cbNew" =>
        \/ th[t].cbpc = "done"
        \/ th[t].cbpc = "" /\ workerIdSequence >= MaxRegWorkers

\* recvCb: fn(msg) returns; Send returns to the script.  A call of a nil
\* func value panics.
RecvCbReturn(t) ==
    /\ Alive
    /\ th[t].pc = "cb_run"
    /\ CallbackDone(t)
    /\ IF th[t].hostfn = NilCallback
       THEN Crash("nil_call")
       ELSE /\ th' = [th EXCEPT ![t].pc = "script", ![t].ip = @ + 1, ![t].acc = JsUndef]
            /\ Forget
            /\ UNCHANGED << idVars, callbacksMap, workerVars, fin, lastReg, ncalls,
                            crashed, auxVars >>

\* recvSyncCb: RLock; fn := callbacksMap[workerId].syncCB; RUnlock.
RecvSyncCbLookup(t) ==
    /\ Alive
    /\ th[t].pc = "scb_lookup"
    /\ IF MapHas(callbacksMap, th[t].w)
       THEN /\ th' = [th EXCEPT ![t].pc = "scb_run",
                                ![t].hostfn = callbacksMap[th[t].w].syncCB]
            /\ Forget
            /\ UNCHANGED << idVars, callbacksMap, workerVars, fin, lastReg,
                            ncalls, crashed, auxVars >>
       ELSE Crash("nil_deref")

\* recvSyncCb: res := fn(msg); return C.CString(res).  SendSync turns the C
\* string into the binding's return value and frees it.
RecvSyncCbReturn(t) ==
    /\ Alive
    /\ th[t].pc = "scb_run"
    /\ IF th[t].hostfn = NilCallback
       THEN Crash("nil_call")
       ELSE /\ LET r == HostSyncCall(th[t].hostfn, th[t].cbmsg)
               IN  th' = [th EXCEPT ![t].pc = "script", ![t].ip = @ + 1,
                                    ![t].cbret = r, ![t].synccalls = @ + 1,
                                    ![t].acc = JsStr(NewFromUtf8(CString(r)))]
            /\ Forget
            /\ UNCHANGED << idVars, callbacksMap, workerVars, fin, lastReg, ncalls,
                            crashed, auxVars >>

(***************************************************************************)
(* Execution control and memory operations.  Of these only                 *)
(* worker_low_memory_notification constructs a Locker.                     *)
(***************************************************************************)
\* Worker.TerminateExecution up to the call of Isolate::TerminateExecution.
TerminateExecutionStart(t) ==
    /\ Alive
    /\ th[t].pc = "idle"
    /\ ncalls < MaxCalls
    /\ \E w \in WorkerIds :
          /\ Callable(w)
          /\ th' = [th EXCEPT ![t] = [Idle EXCEPT !.pc = "terminate", !.op = "terminate",
                                                  !.w = w]]
    /\ ncalls' = ncalls + 1
    /\ Forget
    /\ UNCHANGED << idVars, callbacksMap, workerVars, fin, lastReg, crashed, auxVars >>

\* Isolate::TerminateExecution: the request is left pending in the isolate.
\* (History: a call that is executing script on the Worker at this moment
\* is marked as interrupted in flight.)
TerminateExecutionReturn(t) ==
    /\ Alive
    /\ th[t].pc = "terminate"
    /\ terminating' = [terminating EXCEPT ![th[t].w] = TRUE]
    /\ res' = Result(t, [NoRes EXCEPT !.op = "terminate", !.w = th[t].w])
    /\ th' = [u \in Threads |->
                IF u = t THEN Idle
                ELSE IF th[u].w = th[t].w /\ th[u].pc = "script"
                          /\ th[u].ip <= Len(th[u].code)
                     THEN [th[u] EXCEPT !.interrupted = TRUE]
                     ELSE th[u]]
    /\ UNCHANGED << idVars, callbacksMap, workerVars, fin, lastReg, ncalls, crashed,
                    scriptSequence, scriptSequenceLocker, origins, named,
                    callbacksMapLocker >>

\* The running script reaches an unwind point with a termination pending:
\* Run / Call return an empty handle, the TryCatch has caught, the request
\* is consumed.
ScriptTerminate(t) ==
    /\ Running(t)
    /\ terminating[th[t].w]
    /\ terminating' = [terminating EXCEPT ![th[t].w] = FALSE]
    /\ th' = [th EXCEPT ![t].ip = Len(th[t].code) + 1, ![t].caught = TRUE,
                        ![t].retv = JsEmpty, ![t].terminated = TRUE]
    /\ Forget
    /\ UNCHANGED << idVars, callbacksMap, workerVars, fin, lastReg, ncalls, crashed,
                    scriptSequence, scriptSequenceLocker, origins, named,
                    callbacksMapLocker >>

\* Worker.GetHeapStatistics up to Isolate::GetHeapStatistics.
GetHeapStatisticsStart(t) ==
    /\ Alive
    /\ th[t].pc = "idle"
    /\ ncalls < MaxCalls
    /\ \E w \in WorkerIds :
          /\ Callable(w)
          /\ th' = [th EXCEPT ![t] = [Idle EXCEPT !.pc = "stats", !.op = "stats", !.w = w]]
    /\ ncalls' = ncalls + 1
    /\ Forget
    /\ UNCHANGED << idVars, callbacksMap, workerVars, fin, lastReg, crashed, auxVars >>

\* worker_get_heap_statistics copies the sizes into the int fields and the
\* Go side builds the HeapStatistics it returns.
GetHeapStatisticsReturn(t, heaps) ==
    /\ Alive
    /\ th[t].pc = "stats"
    /\ \E e \in heaps :
          res' = Result(t, [NoRes EXCEPT !.op = "stats", !.w = th[t].w,
                                         !.hs = HeapSnapshot(e)])
    /\ th' = [th EXCEPT ![t] = Idle]
    /\ UNCHANGED << idVars, callbacksMap, workerVars, fin, lastReg, ncalls, crashed, auxVars >>

\* Worker.IdleNotificationDeadline up to Isolate::IdleNotificationDeadline.
IdleNotificationStart(t) ==
    /\ Alive
    /\ th[t].pc = "idle"
    /\ ncalls < MaxCalls
    /\ \E w \in WorkerIds :
          /\ Callable(w)
          /\ th' = [th EXCEPT ![t] = [Idle EXCEPT !.pc = "idle_gc", !.op = "idleNotification",
                                                  !.w = w]]
    /\ ncalls' = ncalls + 1
    /\ Forget
    /\ UNCHANGED << idVars, callbacksMap, workerVars, fin, lastReg, crashed, auxVars >>

\* Isolate::IdleNotificationDeadline collects garbage in the heap.  With
\* another thread running in the isolate that is a data race on the heap:
\* the process may die of it.
IdleNotificationReturn(t) ==
    /\ Alive
    /\ th[t].pc = "idle_gc"
    /\ \/ /\ res' = Result(t, [NoRes EXCEPT !.op = "idleNotification", !.w = th[t].w])
          /\ th' = [th EXCEPT ![t] = Idle]
          /\ UNCHANGED << idVars, callbacksMap, workerVars, fin, lastReg, ncalls,
                          crashed, auxVars >>
       \/ /\ isolateLock[th[t].w] \notin {NoThread, t}
          /\ Crash("heap_race")

\* Worker.LowMemoryNotification and worker_low_memory_notification up to
\* Isolate::LowMemoryNotification: the Locker.
LowMemoryEnter(t) ==
    /\ Alive
    /\ th[t].pc = "idle"
    /\ ncalls < MaxCalls
    /\ \E w \in WorkerIds :
          /\ Callable(w)
          /\ LockerCanEnter(isolateLock[w], t)
          /\ isolateLock' = [isolateLock EXCEPT ![w] = LockerEnter(@, t)]
          /\ th' = [th EXCEPT ![t] = [Idle EXCEPT !.pc = "lowmem", !.op = "lowMemory",
                                                  !.w = w]]
    /\ ncalls' = ncalls + 1
    /\ Forget
    /\ UNCHANGED << idVars, callbacksMap, ctx, recv, recv_sync_handler, last_exception,
                    fin, lastReg, crashed, auxVars >>

\* Isolate::LowMemoryNotification returns; ~Locker.
LowMemoryExit(t) ==
    /\ Alive
    /\ th[t].pc = "lowmem"
    /\ isolateLock' = [isolateLock EXCEPT ![th[t].w] = LockerExit(@, t, TRUE)]
    /\ res' = Result(t, [NoRes EXCEPT !.op = "lowMemory", !.w = th[t].w])
    /\ th' = [th EXCEPT ![t] = Idle]
    /\ UNCHANGED << idVars, callbacksMap, ctx, recv, recv_sync_handler, last_exception,
                    fin, lastReg, ncalls, crashed, auxVars >>

Next ==
    \/ \E t \in Threads : NewIdRead(t, MaxBridgeWorkers)
    \/ \E t \in Threads : NewIdIncr(t)
    \/ \E t \in Threads : NewRegister(t, CallbackPairs)
    \/ \E t \in Threads : NewWorker(t)
    \/ \E w \in WorkerIds : FinalizerDispose(w)
    \/ \E w \in WorkerIds : FinalizerUnregister(w)
    \/ \E t \in Threads : UseAfterDispose(t)
    \/ \E t \in Threads : LoadStart(t, Sources)
    \/ \E t \in Threads : LoadEnter(t)
    \/ \E t \in Threads : LoadExit(t)
    \/ \E t \in Threads : LoadReturn(t)
    \/ \E t \in Threads : SendStart(t)
    \/ \E t \in Threads : SendEnter(t)
    \/ \E t \in Threads : SendExit(t)
    \/ \E t \in Threads : SendReturn(t)
    \/ \E t \in Threads : SendSyncStart(t)
    \/ \E t \in Threads : SendSyncEnter(t)
    \/ \E t \in Threads : SendSyncExit(t)
    \/ \E t \in Threads : SendSyncReturn(t)
    \/ \E t \in Threads : ScriptRecv(t)
    \/ \E t \in Threads : ScriptRecvSync(t)
    \/ \E t \in Threads : ScriptReturn(t)
    \/ \E t \in Threads : ScriptThrow(t)
    \/ \E t \in Threads : ScriptSend(t)
    \/ \E t \in Threads : ScriptSendSync(t)
    \/ \E t \in Threads : RecvCbLookup(t)
    \/ \E t \in Threads : RecvCbReturn(t)
    \/ \E t \in Threads : RecvSyncCbLookup(t)
    \/ \E t \in Threads : RecvSyncCbReturn(t)

\* The message bridge: Workers, calls, scripts, callbacks, the finalizer.
Spec == Init /\ [][Next]_vars

\* The life cycle alone: creations and finalizations of many Workers.
NextLife ==
    \/ \E t \in Threads : NewIdRead(t, MaxWorkers)
    \/ \E t \in Threads : NewIdIncr(t)
    \/ \E t \in Threads : NewRegister(t, CallbackPairs)
    \/ \E t \in Threads : NewWorker(t)
    \/ \E w \in WorkerIds : FinalizerDispose(w)
    \/ \E w \in WorkerIds : FinalizerUnregister(w)

SpecLife == Init /\ [][NextLife]_vars

\* The message bridge with every kind of host: one that gives New both
\* callbacks, one that gives none, one whose sync callback answers a text
\* with a zero byte in it.
NextHost ==
    \/ \E t \in Threads : NewIdRead(t, MaxBridgeWorkers)
    \/ \E t \in Threads : NewIdIncr(t)
    \/ \E t \in Threads : NewRegister(t, AllCallbackPairs)
    \/ \E t \in Threads : NewWorker(t)
    \/ \E w \in WorkerIds : FinalizerDispose(w)
    \/ \E w \in WorkerIds : FinalizerUnregister(w)
    \/ \E t \in Threads : UseAfterDispose(t)
    \/ \E t \in Threads : LoadStart(t, Sources)
    \/ \E t \in Threads : LoadEnter(t)
    \/ \E t \in Threads : LoadExit(t)
    \/ \E t \in Threads : LoadReturn(t)
    \/ \E t \in Threads : SendStart(t)
    \/ \E t \in Threads : SendEnter(t)
    \/ \E t \in Threads : SendExit(t)
    \/ \E t \in Threads : SendReturn(t)
    \/ \E t \in Threads : SendSyncStart(t)
    \/ \E t \in Threads : SendSyncEnter(t)
    \/ \E t \in Threads : SendSyncExit(t)
    \/ \E t \in Threads : SendSyncReturn(t)
    \/ \E t \in Threads : ScriptRecv(t)
    \/ \E t \in Threads : ScriptRecvSync(t)
    \/ \E t \in Threads : ScriptReturn(t)
    \/ \E t \in Threads : ScriptThrow(t)
    \/ \E t \in Threads : ScriptSend(t)
    \/ \E t \in Threads : ScriptSendSync(t)
    \/ \E t \in Threads : RecvCbLookup(t)
    \/ \E t \in Threads : RecvCbReturn(t)
    \/ \E t \in Threads : RecvSyncCbLookup(t)
    \/ \E t \in Threads : RecvSyncCbReturn(t)

SpecHost == Init /\ [][NextHost]_vars

\* The bridge of a host that keeps its Worker and also calls the control
\* and memory operations.
NextCtl ==
    \/ \E t \in Threads : NewIdRead(t, MaxBridgeWorkers)
    \/ \E t \in Threads : NewIdIncr(t)
    \/ \E t \in Threads : NewRegister(t, CallbackPairs)
    \/ \E t \in Threads : NewWorker(t)
    \/ \E t \in Threads : LoadStart(t, CtlSources)
    \/ \E t \in Threads : LoadEnter(t)
    \/ \E t \in Threads : LoadExit(t)
    \/ \E t \in Threads : LoadReturn(t)
    \/ \E t \in Threads : SendStart(t)
    \/ \E t \in Threads : SendEnter(t)
    \/ \E t \in Threads : SendExit(t)
    \/ \E t \in Threads : SendReturn(t)
    \/ \E t \in Threads : SendSyncStart(t)
    \/ \E t \in Threads : SendSyncEnter(t)
    \/ \E t \in Threads : SendSyncExit(t)
    \/ \E t \in Threads : SendSyncReturn(t)
    \/ \E t \in Threads : ScriptRecv(t)
    \/ \E t \in Threads : ScriptRecvSync(t)
    \/ \E t \in Threads : ScriptReturn(t)
    \/ \E t \in Threads : ScriptThrow(t)
    \/ \E t \in Threads : ScriptSend(t)
    \/ \E t \in Threads : ScriptSendSync(t)
    \/ \E t \in Threads : ScriptTerminate(t)
    \/ \E t \in Threads : RecvCbLookup(t)
    \/ \E t \in Threads : RecvCbReturn(t)
    \/ \E t \in Threads : RecvSyncCbLookup(t)
    \/ \E t \in Threads : RecvSyncCbReturn(t)
    \/ \E t \in Threads : TerminateExecutionStart(t)
    \/ \E t \in Threads : TerminateExecutionReturn(t)
    \/ \E t \in Threads : GetHeapStatisticsStart(t)
    \/ \E t \in Threads : GetHeapStatisticsReturn(t, SmallHeaps)
    \/ \E t \in Threads : IdleNotificationStart(t)
    \/ \E t \in Threads : IdleNotificationReturn(t)
    \/ \E t \in Threads : LowMemoryEnter(t)
    \/ \E t \in Threads : LowMemoryExit(t)

SpecCtl == Init /\ [][NextCtl]_vars

\* The heap statistics of one Worker, for every size the engine reports.
NextHeap ==
    \/ \E t \in Threads : NewIdRead(t, MaxBridgeWorkers)
    \/ \E t \in Threads : NewIdIncr(t)
    \/ \E t \in Threads : NewRegister(t, CallbackPairs)
    \/ \E t \in Threads : NewWorker(t)
    \/ \E t \in Threads : GetHeapStatisticsStart(t)
    \/ \E t \in Threads : GetHeapStatisticsReturn(t, ValidHeaps)

SpecHeap == Init /\ [][NextHeap]_vars

\* Loads of a host that names none of its scripts.
NextNames ==
    \/ \E t \in Threads : NewIdRead(t, MaxBridgeWorkers)
    \/ \E t \in Threads : NewIdIncr(t)
    \/ \E t \in Threads : NewRegister(t, CallbackPairs)
    \/ \E t \in Threads : NewWorker(t)
    \/ \E t \in Threads : LoadWithOptionsStart(t)
    \/ \E t \in Threads : NameRead(t)
    \/ \E t \in Threads : NameIncr(t)
    \/ \E t \in Threads : NameWrite(t)
    \/ \E t \in Threads : NameUse(t)
    \/ \E t \in Threads : LoadEnter(t)
    \/ \E t \in Threads : LoadExit(t)
    \/ \E t \in Threads : LoadReturn(t)

SpecNames == Init /\ [][NextNames]_vars

\* Several Workers side by side, kept by the host for the whole run.
NextPair ==
    \/ \E t \in Threads : NewIdRead(t, MaxPairWorkers)
    \/ \E t \in Threads : NewIdIncr(t)
    \/ \E t \in Threads : NewRegister(t, CallbackPairs)
    \/ \E t \in Threads : NewWorker(t)
    \/ \E t \in Threads : LoadStart(t, PairSources)
    \/ \E t \in Threads : LoadEnter(t)
    \/ \E t \in Threads : LoadExit(t)
    \/ \E t \in Threads : LoadReturn(t)
    \/ \E t \in Threads : SendStart(t)
    \/ \E t \in Threads : SendEnter(t)
    \/ \E t \in Threads : SendExit(t)
    \/ \E t \in Threads : SendReturn(t)
    \/ \E t \in Threads : SendSyncStart(t)
    \/ \E t \in Threads : SendSyncEnter(t)
    \/ \E t \in Threads : SendSyncExit(t)
    \/ \E t \in Threads : SendSyncReturn(t)
    \/ \E t \in Threads : ScriptRecv(t)
    \/ \E t \in Threads : ScriptRecvSync(t)
    \/ \E t \in Threads : ScriptReturn(t)
    \/ \E t \in Threads : ScriptThrow(t)
    \/ \E t \in Threads : ScriptSend(t)
    \/ \E t \in Threads : ScriptSendSync(t)
    \/ \E t \in Threads : RecvCbLookup(t)
    \/ \E t \in Threads : RecvCbReturn(t)
    \/ \E t \in Threads : RecvSyncCbLookup(t)
    \/ \E t \in Threads : RecvSyncCbReturn(t)

SpecPair == Init /\ [][NextPair]_vars

(***************************************************************************)
(* The registry lock, statement by statement: Lock and RLock are calls     *)
(* that can wait, and the statements between them and Unlock / RUnlock are *)
(* steps of their own.                                                     *)
(***************************************************************************)
regAux == << scriptSequence, scriptSequenceLocker, origins, named, terminating >>

\* New: callbacksMapLocker.Lock() is called.
NewLockCall(t) ==
    /\ Alive
    /\ th[t].pc = "new_register"
    /\ callbacksMapLocker' = RWLockCall(callbacksMapLocker, t)
    /\ th' = [th EXCEPT ![t].pc = "new_reg_wait"]
    /\ Forget
    /\ UNCHANGED << idVars, callbacksMap, workerVars, fin, lastReg, ncalls,
                    crashed, regAux >>

\* New: callbacksMapLocker.Lock() returns.
NewLockAcquire(t) ==
    /\ Alive
    /\ th[t].pc = "new_reg_wait"
    /\ RWCanLock(callbacksMapLocker, t)
    /\ callbacksMapLocker' = RWLock(callbacksMapLocker, t)
    /\ th' = [th EXCEPT ![t].pc = "new_reg_locked"]
    /\ Forget
    /\ UNCHANGED << idVars, callbacksMap, workerVars, fin, lastReg, ncalls,
                    crashed, regAux >>

\* New: callbacksMap[workerId] = &cbWrapper; callbacksMapLocker.Unlock()
NewWriteUnlock(t, pairs) ==
    /\ Alive
    /\ th[t].pc = "new_reg_locked"
    /\ \E cbs \in pairs :
          callbacksMap' = RegisterEntry(callbacksMap, th[t].id, cbs)
    /\ callbacksMapLocker' = RWUnlock(callbacksMapLocker, t)
    /\ th' = [th EXCEPT ![t].pc = "new_worker"]
    /\ Forget
    /\ UNCHANGED << idVars, workerVars, fin, lastReg, ncalls, crashed, regAux >>

\* The finalizer: callbacksMapLocker.Lock() is called.
FinalizerLockCall(w) ==
    /\ Alive
    /\ fin[w] = "disposed"
    /\ callbacksMapLocker' = RWLockCall(callbacksMapLocker, FinalizerGoroutine)
    /\ fin' = [fin EXCEPT ![w] = "fin_wait"]
    /\ Forget
    /\ UNCHANGED << idVars, callbacksMap, workerVars, th, lastReg, ncalls,
                    crashed, regAux >>

\* The finalizer: callbacksMapLocker.Lock() returns.
FinalizerLockAcquire(w) ==
    /\ Alive
    /\ fin[w] = "fin_wait"
    /\ RWCanLock(callbacksMapLocker, FinalizerGoroutine)
    /\ callbacksMapLocker' = RWLock(callbacksMapLocker, FinalizerGoroutine)
    /\ fin' = [fin EXCEPT ![w] = "fin_locked"]
    /\ Forget
    /\ UNCHANGED << idVars, callbacksMap, workerVars, th, lastReg, ncalls,
                    crashed, regAux >>

\* The finalizer: delete(callbacksMap, workerId); callbacksMapLocker.Unlock()
FinalizerDeleteUnlock(w) ==
    /\ Alive
    /\ fin[w] = "fin_locked"
    /\ callbacksMap' = UnregisterEntry(callbacksMap, w)
    /\ callbacksMapLocker' = RWUnlock(callbacksMapLocker, FinalizerGoroutine)
    /\ fin' = [fin EXCEPT ![w] = "done"]
    /\ Forget
    /\ UNCHANGED << idVars, workerVars, th, lastReg, ncalls, crashed, regAux >>

\* recvCb: callbacksMapLocker.RLock() returns.
RecvCbRLock(t) ==
    /\ Alive
    /\ th[t].pc = "cb_lookup"
    /\ RWCanRLock(callbacksMapLocker)
    /\ callbacksMapLocker' = RWRLock(callbacksMapLocker, t)
    /\ th' = [th EXCEPT ![t].pc = "cb_read"]
    /\ Forget
    /\ UNCHANGED << idVars, callbacksMap, workerVars, fin, lastReg, ncalls,
                    crashed, regAux >>

\* recvCb: fn := callbacksMap[workerId].cb.  The panic on an absent key
\* ends the process.
RecvCbRead(t) ==
    /\ Alive
    /\ th[t].pc = "cb_read"
    /\ IF MapHas(callbacksMap, th[t].w)
       THEN /\ th' = [th EXCEPT ![t].pc = "cb_runlock",
                                ![t].hostfn = callbacksMap[th[t].w].cb]
            /\ Forget
            /\ UNCHANGED << idVars, callbacksMap, workerVars, fin, lastReg,
                            ncalls, crashed, auxVars >>
       ELSE Crash("nil_deref")

\* recvCb: callbacksMapLocker.RUnlock(); the next statement is fn(msg).
RecvCbRUnlock(t) ==
    /\ Alive
    /\ th[t].pc = "cb_runlock"
    /\ callbacksMapLocker' = RWRUnlock(callbacksMapLocker, t)
    /\ th' = [th EXCEPT ![t].pc = "cb_run"]
    /\ Forget
    /\ UNCHANGED << idVars, callbacksMap, workerVars, fin, lastReg, ncalls,
                    crashed, regAux >>

\* recvSyncCb: callbacksMapLocker.RLock() returns.
RecvSyncCbRLock(t) ==
    /\ Alive
    /\ th[t].pc = "scb_lookup"
    /\ RWCanRLock(callbacksMapLocker)
    /\ callbacksMapLocker' = RWRLock(callbacksMapLocker, t)
    /\ th' = [th EXCEPT ![t].pc = "scb_read"]
    /\ Forget
    /\ UNCHANGED << idVars, callbacksMap, workerVars, fin, lastReg, ncalls,
                    crashed, regAux >>

\* recvSyncCb: fn := callbacksMap[workerId].syncCB
RecvSyncCbRead(t) ==
    /\ Alive
    /\ th[t].pc = "scb_read"
    /\ IF MapHas(callbacksMap, th[t].w)
       THEN /\ th' = [th EXCEPT ![t].pc = "scb_runlock",
                                ![t].hostfn = callbacksMap[th[t].w].syncCB]
            /\ Forget
            /\ UNCHANGED << idVars, callbacksMap, workerVars, fin, lastReg,
                            ncalls, crashed, auxVars >>
       ELSE Crash("nil_deref")

\* recvSyncCb: callbacksMapLocker.RUnlock(); the next statement is fn(msg).
RecvSyncCbRUnlock(t) ==
    /\ Alive
    /\ th[t].pc = "scb_runlock"
    /\ callbacksMapLocker' = RWRUnlock(callbacksMapLocker, t)
    /\ th' = [th EXCEPT ![t].pc = "scb_run"]
    /\ Forget
    /\ UNCHANGED << idVars, callbacksMap, workerVars, fin, lastReg, ncalls,
                    crashed, regAux >>

(***************************************************************************)
(* The host callback cbNew: it calls New on the thread that is inside      *)
(* recvCb, which is inside the script's $send.  cbpc is the position of    *)
(* that New.                                                               *)
(***************************************************************************)
\* cbNew's New: nextWorkerId()
CallbackNewId(t) ==
    /\ Alive
    /\ th[t].pc = "cb_run"
    /\ th[t].hostfn = "cbNew"
    /\ th[t].cbpc = ""
    /\ workerIdSequence < MaxRegWorkers
    /\ MutexFree(workerIdSequenceLocker)
    /\ workerIdSequence' = workerIdSequence + 1
    /\ issued' = Append(issued, workerIdSequence)
    /\ th' = [th EXCEPT ![t].cbpc = "new_register", ![t].cbid = workerIdSequence]
    /\ Forget
    /\ UNCHANGED << workerIdSequenceLocker, callbacksMap, workerVars, fin,
                    lastReg, ncalls, crashed, auxVars >>

\* cbNew's New: callbacksMapLocker.Lock() is called.
CallbackNewLockCall(t) ==
    /\ Alive
    /\ th[t].pc = "cb_run"
    /\ th[t].cbpc = "new_register"
    /\ callbacksMapLocker' = RWLockCall(callbacksMapLocker, t)
    /\ th' = [th EXCEPT ![t].cbpc = "new_reg_wait"]
    /\ Forget
    /\ UNCHANGED << idVars, callbacksMap, workerVars, fin, lastReg, ncalls,
                    crashed, regAux >>

\* cbNew's New: callbacksMapLocker.Lock() returns.
CallbackNewLockAcquire(t) ==
    /\ Alive
    /\ th[t].pc = "cb_run"
    /\ th[t].cbpc = "new_reg_wait"
    /\ RWCanLock(callbacksMapLocker, t)
    /\ callbacksMapLocker' = RWLock(callbacksMapLocker, t)
    /\ th' = [th EXCEPT ![t].cbpc = "new_reg_locked"]
    /\ Forget
    /\ UNCHANGED << idVars, callbacksMap, workerVars, fin, lastReg, ncalls,
                    crashed, regAux >>

\* cbNew's New: callbacksMap[workerId] = &cbWrapper; Unlock()
CallbackNewWriteUnlock(t, pairs) ==
    /\ Alive
    /\ th[t].pc = "cb_run"
    /\ th[t].cbpc = "new_reg_locked"
    /\ \E cbs \in pairs :
          callbacksMap' = RegisterEntry(callbacksMap, th[t].cbid, cbs)
    /\ callbacksMapLocker' = RWUnlock(callbacksMapLocker, t)
    /\ th' = [th EXCEPT ![t].cbpc = "new_worker"]
    /\ Forget
    /\ UNCHANGED << idVars, workerVars, fin, lastReg, ncalls, crashed, regAux >>

\* cbNew's New: worker_new and SetFinalizer; New returns to the callback.
CallbackNewWorker(t) ==
    /\ Alive
    /\ th[t].pc = "cb_run"
    /\ th[t].cbpc = "new_worker"
    /\ th[t].cbid \in WorkerIds
    /\ ctx' = [ctx EXCEPT ![th[t].cbid] = "live"]
    /\ recv' = [recv EXCEPT ![th[t].cbid] = NoFunc]
    /\ recv_sync_handler' = [recv_sync_handler EXCEPT ![th[t].cbid] = NoFunc]
    /\ last_exception' = [last_exception EXCEPT ![th[t].cbid] = NoDiag]
    /\ isolateLock' = [isolateLock EXCEPT ![th[t].cbid] = NoThread]
    /\ fin' = [fin EXCEPT ![th[t].cbid] = "armed"]
    /\ th' = [th EXCEPT ![t].cbpc = "done"]
    /\ Forget
    /\ UNCHANGED << idVars, callbacksMap, lastReg, ncalls, crashed, auxVars >>

\* A host whose threads and callbacks create Workers while the collector
\* disposes of the ones the host has dropped.
NextReg ==
    \/ \E t \in Threads : NewIdRead(t, MaxRegWorkers)
    \/ \E t \in Threads : NewIdIncr(t)
    \/ \E t \in Threads : NewLockCall(t)
    \/ \E t \in Threads : NewLockAcquire(t)
    \/ \E t \in Threads : NewWriteUnlock(t, RegCallbackPairs)
    \/ \E t \in Threads : NewWorker(t)
    \/ \E w \in WorkerIds : FinalizerDispose(w)
    \/ \E w \in WorkerIds : FinalizerLockCall(w)
    \/ \E w \in WorkerIds : FinalizerLockAcquire(w)
    \/ \E w \in WorkerIds : FinalizerDeleteUnlock(w)
    \/ \E t \in Threads : LoadStart(t, RegSources)
    \/ \E t \in Threads : LoadEnter(t)
    \/ \E t \in Threads : LoadExit(t)
    \/ \E t \in Threads : LoadReturn(t)
    \/ \E t \in Threads : ScriptSend(t)
    \/ \E t \in Threads : ScriptSendSync(t)
    \/ \E t \in Threads : RecvCbRLock(t)
    \/ \E t \in Threads : RecvCbRead(t)
    \/ \E t \in Threads : RecvCbRUnlock(t)
    \/ \E t \in Threads : CallbackNewId(t)
    \/ \E t \in Threads : CallbackNewLockCall(t)
    \/ \E t \in Threads : CallbackNewLockAcquire(t)
    \/ \E t \in Threads : CallbackNewWriteUnlock(t, RegCallbackPairs)
    \/ \E t \in Threads : CallbackNewWorker(t)
    \/ \E t \in Threads : RecvCbReturn(t)
    \/ \E t \in Threads : RecvSyncCbRLock(t)
    \/ \E t \in Threads : RecvSyncCbRead(t)
    \/ \E t \in Threads : RecvSyncCbRUnlock(t)
    \/ \E t \in Threads : RecvSyncCbReturn(t)

SpecReg == Init /\ [][NextReg]_vars

\* The Go scheduler runs every runnable goroutine, and a sync.RWMutex hands
\* the lock to a waiter that is passed over for long (starvation mode).
RegFairness ==
    /\ \A t \in Threads :
          /\ WF_vars(RecvCbRead(t) \/ RecvCbRUnlock(t)
                       \/ RecvSyncCbRead(t) \/ RecvSyncCbRUnlock(t))
          /\ WF_vars(NewWriteUnlock(t, RegCallbackPairs)
                       \/ CallbackNewWriteUnlock(t, RegCallbackPairs))
          /\ SF_vars(NewLockAcquire(t) \/ CallbackNewLockAcquire(t))
          /\ SF_vars(RecvCbRLock(t) \/ RecvSyncCbRLock(t))
    /\ WF_vars(\E w \in WorkerIds : FinalizerDeleteUnlock(w))
    /\ SF_vars(\E w \in WorkerIds : FinalizerLockAcquire(w))

SpecRegFair == SpecReg /\ RegFairness

(***************************************************************************)
(* Properties.                                                             *)
(***************************************************************************)
\* The positions of a thread between the construction and the destruction
\* of the outer Locker of worker_load, worker_send or worker_send_sync.
LockedPcs == {"script", "cb_lookup", "cb_read", "cb_runlock", "cb_run",
              "scb_lookup", "scb_read", "scb_runlock", "scb_run"}
Inside(t, w) == th[t].w = w /\ th[t].pc \in LockedPcs

\* C1: for each Worker at most one thread at a time is inside load, send or
\* sendSync, also while a host callback called from that Worker's script
\* is running.
C1_MutualExclusion ==
    \A w \in WorkerIds : Cardinality({ t \in Threads : Inside(t, w) }) <= 1

\* C1, its case: one thread is in the host callback of $send while another
\* waits to enter the same Worker.
C1_Witness ==
    \E t \in Threads, u \in Threads :
        /\ th[t].pc = "cb_run"
        /\ th[u].pc = "enter"
        /\ th[u].w = th[t].w

\* C2, as claimed: a registry lookup for a script-to-host call finds the
\* callback pair or fails cleanly; it never dereferences an absent entry.
C2_LookupNeverDereferencesAbsentEntry == crashed # "nil_deref"

\* C3, as claimed: the registry holds an entry for an identity exactly when
\* the Worker of that identity is constructed and not yet disposed.
C3_EntryExactlyWhenLive ==
    \A i \in WorkerIds : MapHas(callbacksMap, i) <=> ctx[i] = "live"

\* C3, amended: every constructed and not yet disposed Worker has its
\* entry, and once the finalizer has completed the entry is gone.
C3_LiveWorkerHasEntry ==
    \A i \in WorkerIds :
        /\ ctx[i] = "live" => MapHas(callbacksMap, i)
        /\ fin[i] = "done" => ~MapHas(callbacksMap, i)

\* C3, its case: one Worker is live with its entry while another has been
\* disposed and unregistered.
C3_Witness ==
    \E i \in WorkerIds, j \in WorkerIds :
        /\ ctx[i] = "live" /\ MapHas(callbacksMap, i)
        /\ fin[j] = "done" /\ ~MapHas(callbacksMap, j)

\* C4: every identity nextWorkerId returns differs from every identity it
\* returned before.
C4_IdentitiesUnique ==
    \A i \in 1 .. Len(issued), j \in 1 .. Len(issued) :
        i # j => issued[i] # issued[j]

\* C4, its case: a create is inside nextWorkerId while another create is
\* under way on the other thread and an earlier Worker has been disposed.
C4_Witness ==
    \E t \in Threads, u \in Threads, w \in WorkerIds :
        /\ th[t].pc = "new_incr"
        /\ th[u].pc \in {"new_register", "new_worker"}
        /\ fin[w] = "done"

\* C5, as claimed: send on a Worker with no async handler returns the error
\* "$recv not called" and invokes no script.
C5_SendWithoutHandler ==
    \A t \in Threads :
        (res[t].op = "send" /\ res[t].r = 1) =>
            (res[t].err = RecvNotCalled /\ res[t].invoked = 0)

\* C6: sendSync with no sync handler returns "err: $recvSync not called",
\* and with a handler that returns a non-text value it returns
\* "err: non-string return value"; both as ordinary replies.
C6_SoftFailures ==
    \A t \in Threads :
        res[t].op = "sendSync" =>
            /\ res[t].fn = NoFunc => res[t].reply = ErrRecvSyncNotCalled
            /\ (res[t].fn # NoFunc /\ res[t].retk \in {"num", "undef"}) =>
                  res[t].reply = ErrNonStringReturn

\* C6, its case: a sendSync whose handler returned a number has returned.
C6_Witness ==
    \E t \in Threads :
        /\ res[t].op = "sendSync"
        /\ res[t].fn = "num"
        /\ res[t].retk = "num"
        /\ res[t].reply = ErrNonStringReturn

\* C7, as claimed: with the handler function(m) { return m }, sendSync(msg)
\* returns exactly msg.
C7_RoundTrip ==
    \A t \in Threads :
        (res[t].op = "sendSync" /\ res[t].fn = "echo") => res[t].reply = res[t].msg

\* C8: each handler slot holds exactly the callable of the latest register
\* call of its kind (empty before the first), and send / sendSync run the
\* callable that is in the slot.
C8_LastRegistrationWins ==
    /\ \A w \in WorkerIds :
          /\ recv[w] = lastReg[w].async
          /\ recv_sync_handler[w] = lastReg[w].sync
    /\ \A t \in Threads :
          /\ (th[t].op = "send" /\ th[t].pc \in LockedPcs) =>
                (th[t].fn = lastReg[th[t].w].async /\ th[t].code = Body(th[t].fn))
          /\ (th[t].op = "sendSync" /\ th[t].pc \in LockedPcs) =>
                (th[t].fn = lastReg[th[t].w].sync /\ th[t].code = Body(th[t].fn))

\* C8, its case: regB.js, loaded after regA.js, has replaced the async
\* handler and not yet the sync handler.
C8_Witness ==
    \E t \in Threads :
        /\ th[t].op = "load" /\ th[t].src = "regB.js" /\ th[t].ip = 2
        /\ recv[th[t].w] = "fail"
        /\ recv_sync_handler[th[t].w] = "echo"

\* C9: a load whose source does not compile returns a diagnostic and runs
\* nothing; a load whose source compiles runs the unit exactly once and
\* returns a diagnostic if the run threw, success otherwise.
C9_LoadOutcomes ==
    \A t \in Threads :
        res[t].op = "load" =>
            /\ res[t].src = "bad.js" =>
                  /\ ~res[t].ok /\ res[t].err # NoDiag
                  /\ ~res[t].compiled /\ res[t].runs = 0 /\ res[t].regs = 0
            /\ res[t].src # "bad.js" => (res[t].compiled /\ res[t].runs = 1)
            /\ res[t].src = "boom.js" => (~res[t].ok /\ res[t].err # NoDiag)
            /\ res[t].src \in {"regA.js", "regB.js"} => (res[t].ok /\ res[t].err = NoDiag)

\* C9, its case: a load of a unit that compiled, ran once and threw has
\* returned its diagnostic.
C9_Witness ==
    \E t \in Threads :
        /\ res[t].op = "load" /\ res[t].src = "boom.js"
        /\ res[t].runs = 1 /\ ~res[t].ok
        /\ res[t].err = ExceptionString("runtime", "boom.js")

\* C10, as claimed: a failing load, or a send whose handler raised a fault,
\* returns non-success and hands the host the diagnostic of that failure.
C10_FailureReturnsItsDiagnostic ==
    \A t \in Threads :
        ((res[t].op = "load" /\ res[t].diag # NoDiag)
           \/ (res[t].op = "send" /\ res[t].r = 2)) =>
            (~res[t].ok /\ res[t].err = res[t].diag)

\* C11, as claimed: a $send or $sendSync of a script whose Worker has no
\* host callback of that kind (New was given nil) is reported as an error;
\* it is neither silent nor the end of the process.
C11_MissingCallbackIsReported == crashed # "nil_call"

\* C12, as claimed: the host sync callback is called once per $sendSync
\* with the script's message, and the value the script gets back is the
\* text the callback returned.
C12_SyncCallbackExact ==
    \A t \in Threads :
        /\ th[t].pc = "scb_run" => th[t].cbmsg = Utf8Encode(th[t].arg)
        /\ (th[t].pc = "script" /\ th[t].synccalls > 0) =>
              /\ th[t].synccalls = 1
              /\ th[t].acc = JsStr(Utf8Decode(th[t].cbret))

\* C13, as claimed: a load, send or sendSync whose script was interrupted
\* by terminateExecution returns to its caller with an error; the process
\* does not die of it.
C13_TerminatedCallReturnsDiagnostic ==
    /\ crashed # "empty_handle_terminated"
    /\ \A t \in Threads :
          (res[t].terminated /\ res[t].interrupted) =>
              (~res[t].ok /\ res[t].err # NoDiag)

\* The positions of a thread inside the context of its Worker.
InContextPcs == LockedPcs \cup {"terminate", "stats", "idle_gc", "lowmem"}

\* C15, as claimed: at most one thread at a time is inside the context of
\* a Worker, whichever operations the threads are in.
C15_EveryOperationLocked ==
    \A w \in WorkerIds :
        Cardinality({ t \in Threads : th[t].w = w /\ th[t].pc \in InContextPcs }) <= 1

\* C16, as claimed: every field of a heap statistics snapshot is
\* non-negative, and used <= total <= limit when the limit is not 0.
C16_SnapshotSignAndOrder ==
    \A t \in Threads :
        res[t].op = "stats" =>
            /\ res[t].hs.UsedHeapSize >= 0
            /\ res[t].hs.TotalHeapSize >= 0
            /\ res[t].hs.HeapSizeLimit >= 0
            /\ res[t].hs.MallocedMemory >= 0
            /\ res[t].hs.HeapSizeLimit # 0 =>
                  /\ res[t].hs.UsedHeapSize <= res[t].hs.TotalHeapSize
                  /\ res[t].hs.TotalHeapSize <= res[t].hs.HeapSizeLimit

\* C18, as claimed: sendSync hands the host a text whatever its handler
\* does, also when the handler throws; the bridge never faults.
C18_SendSyncAlwaysYieldsText == crashed # "empty_handle"

\* C19, as claimed: the context of a Worker is torn down only when no call
\* on the Worker is in flight, and no call is ever inside a Worker whose
\* context has been torn down.
C19_TeardownOnlyWhenQuiescent ==
    \A w \in WorkerIds : ctx[w] = "disposed" => InFlight(w) = {}

\* C20, as claimed: the error text a failing load or send returns is the
\* diagnostic that call itself wrote to the last-diagnostic slot.
C20_OwnDiagnosticUnderConcurrency ==
    \A t \in Threads :
        (res[t].op \in {"load", "send"} /\ res[t].r # 0) => res[t].err = res[t].diag

\* C17, as claimed: the loads given no origin name are attributed names
\* "VM<n>" handed out by the counter, and no two of them the same name.
C17_FreshSyntheticNames ==
    /\ \A i \in 1 .. Len(named) :
          \E n \in 0 .. (scriptSequence - 1) : named[i] = ScriptName(n)
    /\ \A i \in 1 .. Len(named), j \in 1 .. Len(named) :
          i # j => named[i] # named[j]

\* The Worker a thread's call is on (for New, the Worker it creates).
CallOn(t) == IF th[t].op = "new" THEN th[t].id ELSE th[t].w

\* The lock of a Worker is held only by a thread inside a call on it.
LockHeldByOwnCall ==
    \A w \in WorkerIds :
        isolateLock[w] # NoThread =>
            (th[isolateLock[w]].w = w /\ th[isolateLock[w]].pc \in LockedPcs)

\* A call that waits to enter a Worker no thread is inside can enter it,
\* whatever the calls on other Workers are doing.
EntryNeverBlockedByOthers ==
    \A u \in Threads :
        (th[u].pc = "enter" /\ \A v \in Threads : ~Inside(v, th[u].w)) =>
            ENABLED (LoadEnter(u) \/ SendEnter(u) \/ SendSyncEnter(u))

\* The handler a send or sendSync runs is the one last registered on the
\* Worker the call is on.
HandlerOfOwnWorker ==
    \A t \in Threads :
        /\ (th[t].op = "send" /\ th[t].pc \in LockedPcs) =>
              th[t].fn = lastReg[th[t].w].async
        /\ (th[t].op = "sendSync" /\ th[t].pc \in LockedPcs) =>
              th[t].fn = lastReg[th[t].w].sync

\* A step of a call on one Worker leaves the handler slots, the
\* last-diagnostic slot and the lock of every other Worker as they are.
StepTouchesOwnWorkerOnly ==
    \A t \in Threads, b \in WorkerIds :
        (th[t].pc # "idle" /\ th'[t] # th[t] /\ CallOn(t) # b) =>
            /\ recv'[b] = recv[b]
            /\ recv_sync_handler'[b] = recv_sync_handler[b]
            /\ last_exception'[b] = last_exception[b]
            /\ isolateLock'[b] = isolateLock[b]
            /\ ctx'[b] = ctx[b]

\* C14: operations on distinct Workers neither block nor affect each
\* other: a call can enter its Worker whenever no call is inside that
\* Worker, and every step of a call changes the state of its own Worker
\* only.
C14_WorkersIndependent ==
    /\ [](LockHeldByOwnCall /\ EntryNeverBlockedByOthers /\ HandlerOfOwnWorker)
    /\ [][StepTouchesOwnWorkerOnly]_vars

\* C14, its case: a sendSync on one Worker has returned its handler's
\* reply while a call on another Worker sits in a host callback.
C14_Witness ==
    \E t \in Threads, u \in Threads :
        /\ th[t].pc \in {"cb_run", "scb_run"}
        /\ res[u].op = "sendSync"
        /\ res[u].w # th[t].w
        /\ res[u].fn # NoFunc


\* The parties inside a read region of the registry: between RLock and
\* RUnlock of recvCb or recvSyncCb.
RegistryReaders ==
    { t \in Threads : th[t].pc \in {"cb_read", "cb_runlock", "scb_read", "scb_runlock"} }

\* Thread t is between Lock and Unlock of a New, its own or its callback's.
InNewLocked(t) ==
    \/ th[t].pc = "new_reg_locked"
    \/ th[t].pc = "cb_run" /\ th[t].cbpc = "new_reg_locked"

\* Thread t waits in the Lock of a New, its own or its callback's.
InNewWait(t) ==
    \/ th[t].pc = "new_reg_wait"
    \/ th[t].pc = "cb_run" /\ th[t].cbpc = "new_reg_wait"

\* The registry lock is held by exactly the parties that are between a Lock
\* and its Unlock or between an RLock and its RUnlock.
HeldOnlyInsideRegions ==
    /\ callbacksMapLocker.readers = RegistryReaders
    /\ \A t \in Threads : callbacksMapLocker.writer = t <=> InNewLocked(t)
    /\ callbacksMapLocker.writer = FinalizerGoroutine
          <=> \E w \in WorkerIds : fin[w] = "fin_locked"
    /\ \A t \in Threads : t \in callbacksMapLocker.pending <=> InNewWait(t)
    /\ FinalizerGoroutine \in callbacksMapLocker.pending
          <=> \E w \in WorkerIds : fin[w] = "fin_wait"

\* A thread that runs a host callback, or that constructs the Locker of a
\* Worker (at the entry of a call, or in worker_new), holds no read lock of
\* the registry, and no write lock but the one the callback's own New has
\* taken.
NotHeldAcrossCallbackOrLocker ==
    \A t \in Threads :
        th[t].pc \in {"cb_run", "scb_run", "enter", "new_worker"} =>
            /\ t \notin callbacksMapLocker.readers
            /\ callbacksMapLocker.writer = t => th[t].cbpc = "new_reg_locked"
            /\ th[t].cbpc = "" => callbacksMapLocker.writer # t

\* Whoever holds the registry lock can take its next step, which leads to
\* the release, whatever the other parties do or wait for.
HoldersCanRelease ==
    /\ \A t \in callbacksMapLocker.readers :
          ENABLED (RecvCbRead(t) \/ RecvCbRUnlock(t)
                     \/ RecvSyncCbRead(t) \/ RecvSyncCbRUnlock(t))
    /\ \A t \in Threads :
          callbacksMapLocker.writer = t =>
              ENABLED (NewWriteUnlock(t, RegCallbackPairs)
                         \/ CallbackNewWriteUnlock(t, RegCallbackPairs))
    /\ callbacksMapLocker.writer = FinalizerGoroutine
          => ENABLED (\E w \in WorkerIds : FinalizerDeleteUnlock(w))

\* Whoever waits for the registry lock gets it once the parties that were
\* there first have left.
WaitersCanEnter ==
    /\ \A t \in Threads :
          /\ InNewWait(t)
          /\ callbacksMapLocker.writer = NoThread
          /\ callbacksMapLocker.readers = {}
          => ENABLED (NewLockAcquire(t) \/ CallbackNewLockAcquire(t))
    /\ /\ \E w \in WorkerIds : fin[w] = "fin_wait"
       /\ callbacksMapLocker.writer = NoThread
       /\ callbacksMapLocker.readers = {}
       => ENABLED (\E w \in WorkerIds : FinalizerLockAcquire(w))
    /\ \A t \in Threads :
          /\ th[t].pc \in {"cb_lookup", "scb_lookup"}
          /\ callbacksMapLocker.writer = NoThread
          /\ callbacksMapLocker.pending = {}
          => ENABLED (RecvCbRLock(t) \/ RecvSyncCbRLock(t))

\* Under SpecRegFair every wait for the registry lock ends: a New gets the
\* write lock, a lookup reaches its callback, a finalizer finishes.
RegistryWaitsEnd ==
    /\ \A t \in Threads : InNewWait(t) ~> InNewLocked(t)
    /\ \A t \in Threads :
          (th[t].pc \in {"cb_lookup", "scb_lookup"}) ~> (th[t].pc \in {"cb_run", "scb_run"})
    /\ \A w \in WorkerIds : (fin[w] = "fin_wait") ~> (fin[w] = "done")

\* C21: the registry lock is never held while a host callback runs nor
\* while the lock of a Worker is being acquired: recvCb and recvSyncCb
\* release the read lock before they call the callback, so a callback that
\* creates a Worker, and the creations and disposals of other threads, get
\* the lock; no reachable state is a deadlock on the registry lock.
C21_RegistryLockNeverDeadlocks ==
    /\ HeldOnlyInsideRegions
    /\ NotHeldAcrossCallbackOrLocker
    /\ HoldersCanRelease
    /\ WaitersCanEnter

\* A callback's New holds the write lock of the registry, inside recvCb,
\* inside a script that holds the Locker of its Worker, while another
\* thread's New and the finalizer wait for the lock.
C21_Witness ==
    \E t \in Threads :
        /\ th[t].pc = "cb_run"
        /\ th[t].hostfn = "cbNew"
        /\ th[t].cbpc = "new_reg_locked"
        /\ isolateLock[th[t].w] = t
        /\ callbacksMapLocker.writer = t
        /\ \E u \in Threads \ {t} : u \in callbacksMapLocker.pending

====
